---- MODULE Spec2Model ----
(***************************************************************************)
(* SimpleDBForge: the write path of the LSM engine.                        *)
(*   KeyOrder  (lsm/utils/kv.go)        CompareKey / splitKey / ParseTs    *)
(*   SkipList  (lsm/pkg/skip_list.go)   Set / Get over an arena of nodes   *)
(*   WAL       (internal/lsm/wal.go)    Write / ReadAll / ReadBatch /      *)
(*                                      readNext over a file of bytes      *)
(*   MemTable  (internal/utils/pool.go) Set / Get / Recovery               *)
(* Strings and byte slices are sequences of byte values 0..255; the WAL    *)
(* file is its sequence of bytes and the file offset an index into it.     *)
(***************************************************************************)
EXTENDS Integers, Sequences, FiniteSets, TLC

(***************************************************************************)
(* Bytes and strings                                                       *)
(***************************************************************************)
ChAt == 64
Ch0 == 48
Ch9 == 57
Cha == 97
Chb == 98
\* the first byte value that cannot stand alone in a UTF-8 string
Utf8Limit == 128

Min(x, y) == IF x < y THEN x ELSE y

RECURSIVE Concat(_)
Concat(ss) == IF ss = <<>> THEN <<>> ELSE Head(ss) \o Concat(Tail(ss))

\* strings.Compare: bytewise lexicographic order, -1 / 0 / 1
RECURSIVE StringsCompare(_, _)
StringsCompare(a, b) ==
    IF a = <<>> /\ b = <<>> THEN 0
    ELSE IF a = <<>> THEN -1
    ELSE IF b = <<>> THEN 1
    ELSE IF Head(a) < Head(b) THEN -1
    ELSE IF Head(a) > Head(b) THEN 1
    ELSE StringsCompare(Tail(a), Tail(b))

\* strings.LastIndex(key, "@"), 0-based, -1 when absent
RECURSIVE LastIndexFrom(_, _)
LastIndexFrom(key, i) ==
    IF i = 0 THEN -1
    ELSE IF key[i] = ChAt THEN i - 1
    ELSE LastIndexFrom(key, i - 1)

LastIndexAt(key) == LastIndexFrom(key, Len(key))

\* strconv.ParseUint(s, 10, 64): [ok, val]; only decimal digits, not empty
RECURSIVE DigitsValue(_, _)
DigitsValue(s, acc) ==
    IF s = <<>> THEN acc ELSE DigitsValue(Tail(s), acc * 10 + (Head(s) - Ch0))

ParseUint(s) ==
    IF s # <<>> /\ \A i \in 1..Len(s) : s[i] >= Ch0 /\ s[i] <= Ch9
    THEN [ok |-> TRUE, val |-> DigitsValue(s, 0)]
    ELSE [ok |-> FALSE, val |-> 0]

ParseTs(key) ==
    IF key = <<>> THEN 0
    ELSE LET r == ParseUint(SubSeq(key, LastIndexAt(key) + 2, Len(key)))
         IN IF r.ok THEN r.val ELSE 0

splitKey(key) ==
    LET idx == LastIndexAt(key) IN
    IF idx = -1 THEN [prefix |-> key, ts |-> 0]
    ELSE LET ts == ParseTs(key) IN
         IF ts = 0 THEN [prefix |-> key, ts |-> 0]
         ELSE [prefix |-> SubSeq(key, 1, idx), ts |-> ts]

CompareKey(a, b) ==
    LET ka == splitKey(a)
        kb == splitKey(b)
        cmp == StringsCompare(ka.prefix, kb.prefix)
    IN IF cmp # 0 THEN cmp
       ELSE IF ka.ts < kb.ts THEN 1
       ELSE IF ka.ts > kb.ts THEN -1
       ELSE 0

(***************************************************************************)
(* Entry and its protobuf wire encoding (proto.Marshal / proto.Unmarshal   *)
(* of sdbf.Entry: string Key = 1, bytes Value = 2, bool Tombstone = 3,     *)
(* int64 Version = 4; a field holding its zero value is not encoded).      *)
(* Versions are non-negative here, so a varint is the base-128 digits of   *)
(* the number.                                                             *)
(***************************************************************************)
Entry(k, v, t, ver) == [Key |-> k, Value |-> v, Tombstone |-> t, Version |-> ver]

NilEntry == Entry(<<>>, <<>>, FALSE, 0)

TagKey == 10
TagValue == 18
TagTombstone == 24
TagVersion == 32
VarintBase == 128

RECURSIVE Varint(_)
Varint(n) ==
    IF n < VarintBase THEN <<n>>
    ELSE <<VarintBase + (n % VarintBase)>> \o Varint(n \div VarintBase)

\* [ok, val, next]: the varint starting at 1-based position i of bs
RECURSIVE ReadVarint(_, _)
ReadVarint(bs, i) ==
    IF i > Len(bs) THEN [ok |-> FALSE, val |-> 0, next |-> i]
    ELSE IF bs[i] < VarintBase THEN [ok |-> TRUE, val |-> bs[i], next |-> i + 1]
    ELSE LET r == ReadVarint(bs, i + 1)
         IN [ok |-> r.ok, val |-> (bs[i] - VarintBase) + VarintBase * r.val,
             next |-> r.next]

\* proto3 refuses to marshal a string field that is not valid UTF-8
MarshalFails(e) == \E i \in 1..Len(e.Key) : e.Key[i] >= Utf8Limit

Marshal(e) ==
    (IF e.Key # <<>> THEN <<TagKey>> \o Varint(Len(e.Key)) \o e.Key ELSE <<>>)
    \o (IF e.Value # <<>> THEN <<TagValue>> \o Varint(Len(e.Value)) \o e.Value
        ELSE <<>>)
    \o (IF e.Tombstone THEN <<TagTombstone, 1>> ELSE <<>>)
    \o (IF e.Version # 0 THEN <<TagVersion>> \o Varint(e.Version) ELSE <<>>)

\* [ok, e]: the fields of bs from position i on, folded into e
RECURSIVE UnmarshalFrom(_, _, _)
UnmarshalFrom(bs, i, e) ==
    IF i > Len(bs) THEN [ok |-> TRUE, e |-> e]
    ELSE LET tag == bs[i]
             r == ReadVarint(bs, i + 1)
         IN IF ~r.ok THEN [ok |-> FALSE, e |-> NilEntry]
            ELSE IF tag \in {TagKey, TagValue}
            THEN IF r.next + r.val - 1 > Len(bs)
                 THEN [ok |-> FALSE, e |-> NilEntry]
                 ELSE LET body == SubSeq(bs, r.next, r.next + r.val - 1)
                      IN UnmarshalFrom(bs, r.next + r.val,
                            IF tag = TagKey THEN [e EXCEPT !.Key = body]
                            ELSE [e EXCEPT !.Value = body])
            ELSE IF tag = TagTombstone
            THEN UnmarshalFrom(bs, r.next, [e EXCEPT !.Tombstone = (r.val # 0)])
            ELSE IF tag = TagVersion
            THEN UnmarshalFrom(bs, r.next, [e EXCEPT !.Version = r.val])
            ELSE [ok |-> FALSE, e |-> NilEntry]

Unmarshal(bs) == UnmarshalFrom(bs, 1, NilEntry)

(***************************************************************************)
(* Framing: [8-byte little-endian signed length][payload]                  *)
(***************************************************************************)
LenBytes == 8
ByteBase == 256

RECURSIVE Pow(_, _)
Pow(b, n) == IF n = 0 THEN 1 ELSE b * Pow(b, n - 1)

\* binary.Write(buf, LittleEndian, int64(n)); the lengths written are below
\* 256^3, a negative n (two's complement) appears only in damaged files
Int64LE(n) ==
    [i \in 1..LenBytes |->
        IF n >= 0
        THEN IF i <= 3 THEN (n \div Pow(ByteBase, i - 1)) % ByteBase ELSE 0
        ELSE IF i <= 3
             THEN (ByteBase - 1) - ((((-n) - 1) \div Pow(ByteBase, i - 1)) % ByteBase)
             ELSE ByteBase - 1]

\* binary.Read(fd, LittleEndian, &dataLen) on 8 bytes: the sign is bit 63
ReadInt64LE(bs) ==
    IF bs[LenBytes] >= ByteBase \div 2
    THEN -(1 + (ByteBase - 1 - bs[1]) + (ByteBase - 1 - bs[2]) * ByteBase
             + (ByteBase - 1 - bs[3]) * ByteBase * ByteBase)
    ELSE bs[1] + bs[2] * ByteBase + bs[3] * ByteBase * ByteBase

Frame(e) == Int64LE(Len(Marshal(e))) \o Marshal(e)

(***************************************************************************)
(* SkipList: nodes live in an arena (a sequence); a link is a node's       *)
(* position in it, NilNode for nil and HeadNode for the head sentinel.     *)
(* Level i of the code (0-based) is position i + 1 of a next array.        *)
(***************************************************************************)
NilNode == 0
HeadNode == -1
\* unsafe.Sizeof(entry.Tombstone), unsafe.Sizeof(entry.Version),
\* unsafe.Sizeof((*Element)(nil)) on a 64-bit build
SizeofBool == 1
SizeofInt64 == 8
SizeofPtr == 8

NewSkipList(maxLevel) ==
    [maxLevel |-> maxLevel, level |-> 1, size |-> 0, count |-> 0,
     head |-> [i \in 1..maxLevel |-> NilNode], nodes |-> <<>>]

\* randomLevel draws a level of 1..maxLevel (0 < p < 1); the model follows the
\* draws up to MaxDraw
MaxDraw == 2
randomLevel(s) == 1..Min(s.maxLevel, MaxDraw)

\* curr.next[i]
NextOf(s, curr, i) ==
    IF curr = HeadNode THEN s.head[i + 1] ELSE s.nodes[curr].next[i + 1]

\* for curr.next[i] != nil && CompareKey(curr.next[i].Key, key) < 0 { curr = curr.next[i] }
RECURSIVE Advance(_, _, _, _)
Advance(s, curr, i, key) ==
    LET n == NextOf(s, curr, i) IN
    IF n # NilNode /\ CompareKey(s.nodes[n].Key, key) < 0
    THEN Advance(s, n, i, key)
    ELSE curr

\* the descent from level i down to level 0: [curr, update]
RECURSIVE Descend(_, _, _, _, _)
Descend(s, key, i, curr, update) ==
    IF i < 0 THEN [curr |-> curr, update |-> update]
    ELSE LET c == Advance(s, curr, i, key)
         IN Descend(s, key, i - 1, c, [update EXCEPT ![i + 1] = c])

\* a search that stays at the head
FindPathAtHead(s, key) ==
    [curr |-> HeadNode, update |-> [i \in 1..s.maxLevel |-> HeadNode]]

FindPath(s, key) ==
    Descend(s, key, s.maxLevel - 1, HeadNode, [i \in 1..s.maxLevel |-> NilNode])

\* an update that stores the whole entry passed, its key and version too
SkipListUpdateWhole(s, n, entry) ==
    [s EXCEPT !.size = @ + Len(entry.Value) - Len(s.nodes[n].Value),
              !.nodes[n].Key = entry.Key,
              !.nodes[n].Value = entry.Value,
              !.nodes[n].Tombstone = entry.Tombstone,
              !.nodes[n].Version = entry.Version]

\* an update that leaves the size as it was
SkipListUpdateSizeKept(s, n, entry) ==
    [s EXCEPT !.nodes[n].Value = entry.Value,
              !.nodes[n].Tombstone = entry.Tombstone]

\* the update path of Set: only Value and Tombstone of the node change
SkipListUpdate(s, n, entry) ==
    [s EXCEPT !.size = @ + Len(entry.Value) - Len(s.nodes[n].Value),
              !.nodes[n].Value = entry.Value,
              !.nodes[n].Tombstone = entry.Tombstone]

\* a list whose level stays what it was
LevelKept(s, level) == s.level

\* if level > s.level { ...; s.level = level }
LevelAfter(s, level) == IF level > s.level THEN level ELSE s.level

\* the insert path of Set, with the level randomLevel() drew
SkipListInsert(s, update, entry, level) ==
    LET upd == [i \in 1..s.maxLevel |->
                  IF i > s.level /\ i <= level THEN HeadNode ELSE update[i]]
        id == Len(s.nodes) + 1
        e == [Key |-> entry.Key, Value |-> entry.Value,
              Tombstone |-> entry.Tombstone, Version |-> entry.Version,
              next |-> [i \in 1..level |-> NextOf(s, upd[i], i - 1)]]
        relink(n) == [s.nodes[n] EXCEPT !.next =
                        [i \in 1..Len(@) |->
                            IF i <= level /\ upd[i] = n THEN id ELSE @[i]]]
    IN [s EXCEPT
          !.level = LevelAfter(s, level),
          !.head = [i \in 1..s.maxLevel |->
                      IF i <= level /\ upd[i] = HeadNode THEN id ELSE @[i]],
          !.nodes = [n \in 1..id |-> IF n = id THEN e ELSE relink(n)],
          !.size = @ + Len(entry.Key) + Len(entry.Value) + SizeofBool
                     + SizeofInt64 + level * SizeofPtr,
          !.count = @ + 1]

SkipListSet(s, entry, level) ==
    LET p == FindPath(s, entry.Key)
        n == NextOf(s, p.curr, 0)
    IN IF n # NilNode /\ CompareKey(s.nodes[n].Key, entry.Key) = 0
       THEN SkipListUpdate(s, n, entry)
       ELSE SkipListInsert(s, p.update, entry, level)

EntryOf(node) == Entry(node.Key, node.Value, node.Tombstone, node.Version)

\* Get: [entry, found]
SkipListGet(s, key) ==
    LET n == NextOf(s, FindPath(s, key).curr, 0) IN
    IF n # NilNode /\ s.nodes[n].Key = key
    THEN [entry |-> EntryOf(s.nodes[n]), found |-> TRUE]
    ELSE [entry |-> NilEntry, found |-> FALSE]

\* a Scan that leaves out the entry whose key equals end
ScanKeepsBelow(key, end) == CompareKey(key, end) < 0

\* for curr != nil && utils.CompareKey(curr.Key, end) <= 0
ScanKeeps(key, end) == CompareKey(key, end) <= 0

\* the collecting loop of Scan from node n on
RECURSIVE ScanFrom(_, _, _)
ScanFrom(s, n, end) ==
    IF n # NilNode /\ ScanKeeps(s.nodes[n].Key, end)
    THEN <<EntryOf(s.nodes[n])>> \o ScanFrom(s, NextOf(s, n, 0), end)
    ELSE <<>>

SkipListScan(s, start, end) ==
    ScanFrom(s, NextOf(s, FindPath(s, start).curr, 0), end)

\* the entries along level 0 from node n on
RECURSIVE Level0From(_, _)
Level0From(s, n) ==
    IF n = NilNode THEN <<>>
    ELSE <<EntryOf(s.nodes[n])>> \o Level0From(s, NextOf(s, n, 0))

\* All: [entries, panics]: a slice of count elements filled along level 0
\* (nil where the level ends early, an index panic where it is longer)
SkipListAll(s) ==
    LET w == Level0From(s, NextOf(s, HeadNode, 0)) IN
    [entries |-> [i \in 1..s.count |-> IF i <= Len(w) THEN w[i] ELSE NilEntry],
     panics |-> Len(w) > s.count]

(***************************************************************************)
(* WAL: the operations as functions of the file, the offset and the handle *)
(* An error is a string, "nil" for no error; a nil slice is <<>>.          *)
(***************************************************************************)
ErrNil == "nil"
errNilFD == "errNilFD"
errInvalidEntrySize == "errInvalidEntrySize"
errCorruptedWAL == "errCorruptedWAL"
ErrSeek == "seek failed"
ErrClosed == "file already closed"
ErrMarshal == "marshal failed"
ErrWrite == "write failed"
ErrSync == "sync failed"
ErrReadLength == "failed to read entry length"
ErrReadData == "failed to read entry data: EOF"
ErrUnmarshal == "failed to unmarshal entry"

\* what the device does to one Write: nothing, or a failing seek, a failing
\* write after n bytes of the buffer, or a failing sync
NoFault == [kind |-> "none", n |-> 0]

\* the loop of Write over the entries: [buf, count, err]
RECURSIVE MarshalAll(_, _, _)
MarshalAll(entries, buf, count) ==
    IF entries = <<>> THEN [buf |-> buf, count |-> count, err |-> ErrNil]
    ELSE IF MarshalFails(Head(entries))
    THEN [buf |-> buf, count |-> count, err |-> ErrMarshal]
    ELSE MarshalAll(Tail(entries), buf \o Frame(Head(entries)), count + 1)

\* a Write that does not look at what Sync returned
SyncErrorIgnored(fault) == ErrNil

\* if err := w.fd.Sync(); err != nil { return count, err }
SyncError(fault) == IF fault.kind = "sync" THEN ErrSync ELSE ErrNil

\* a seek that leaves the offset at the start of the file
SeekEndAtStart(file) == 0

\* w.fd.Seek(0, io.SeekEnd): the offset of the end of the file
SeekEnd(file) == Len(file)

\* buf.WriteTo(w.fd): the file after bytes were written at offset off
WriteAt(file, off, bytes) ==
    SubSeq(file, 1, off) \o bytes \o SubSeq(file, off + Len(bytes) + 1, Len(file))

\* Write, between Lock and Unlock: [file, off, count, err, synced]
WALWrite(file, off, fd, entries, fault) ==
    IF fd = "nil"
    THEN [file |-> file, off |-> off, count |-> 0, err |-> errNilFD, synced |-> FALSE]
    ELSE IF fd = "closed"
    THEN [file |-> file, off |-> off, count |-> 0, err |-> ErrClosed, synced |-> FALSE]
    ELSE IF fault.kind = "seek"
    THEN [file |-> file, off |-> off, count |-> 0, err |-> ErrSeek, synced |-> FALSE]
    ELSE LET m == MarshalAll(entries, <<>>, 0)
             end == SeekEnd(file)
         IN
         IF m.err # ErrNil
         THEN [file |-> file, off |-> end, count |-> m.count, err |-> m.err,
               synced |-> FALSE]
         ELSE IF fault.kind = "write"
         THEN LET part == SubSeq(m.buf, 1, Min(fault.n, Len(m.buf)))
              IN [file |-> WriteAt(file, end, part), off |-> end + Len(part),
                  count |-> m.count, err |-> ErrWrite, synced |-> FALSE]
         ELSE [file |-> WriteAt(file, end, m.buf), off |-> end + Len(m.buf),
               count |-> m.count,
               err |-> SyncError(fault),
               synced |-> fault.kind # "sync"]

\* io.CopyN(buf, fd, dataLen): [n, err]; it reports io.EOF when the file ends
\* before dataLen bytes were copied
CopyN(file, off, dataLen) ==
    LET n == Min(dataLen, Len(file) - off)
    IN [n |-> n, err |-> IF n < dataLen THEN "EOF" ELSE ErrNil]

\* a check that lets a record of length 0 through
InvalidSizeBelowZero(dataLen) == dataLen < 0

\* if dataLen <= 0 { return nil, false, errInvalidEntrySize }
InvalidSize(dataLen) == dataLen <= 0

\* the loop of readNext from iteration i on: [entries, hasMore, err, off]
RECURSIVE ReadLoop(_, _, _, _, _)
ReadLoop(file, off, i, maxCount, entries) ==
    IF i >= maxCount
    THEN [entries |-> entries, hasMore |-> TRUE, err |-> ErrNil, off |-> off]
    ELSE IF Len(file) - off = 0
    THEN [entries |-> entries, hasMore |-> FALSE, err |-> ErrNil, off |-> off]
    ELSE IF Len(file) - off < LenBytes
    THEN [entries |-> <<>>, hasMore |-> FALSE, err |-> ErrReadLength,
          off |-> Len(file)]
    ELSE LET dataLen == ReadInt64LE(SubSeq(file, off + 1, off + LenBytes))
             at == off + LenBytes
         IN IF InvalidSize(dataLen)
            THEN [entries |-> <<>>, hasMore |-> FALSE,
                  err |-> errInvalidEntrySize, off |-> at]
            ELSE LET c == CopyN(file, at, dataLen) IN
                 IF c.err # ErrNil
                 THEN [entries |-> <<>>, hasMore |-> FALSE, err |-> ErrReadData,
                       off |-> at + c.n]
                 ELSE IF c.n # dataLen
                 THEN [entries |-> <<>>, hasMore |-> FALSE,
                       err |-> errCorruptedWAL, off |-> at + c.n]
                 ELSE LET u == Unmarshal(SubSeq(file, at + 1, at + dataLen)) IN
                      IF ~u.ok
                      THEN [entries |-> <<>>, hasMore |-> FALSE,
                            err |-> ErrUnmarshal, off |-> at + dataLen]
                      ELSE ReadLoop(file, at + dataLen, i + 1, maxCount,
                                    Append(entries, u.e))

\* a readNext that reads one record more than it was asked for
readNextOneMore(file, off, fd, maxCount) ==
    ReadLoop(file, off, 0, maxCount + 1, <<>>)

readNext(file, off, fd, maxCount) ==
    IF fd = "nil"
    THEN [entries |-> <<>>, hasMore |-> FALSE, err |-> errNilFD, off |-> off]
    ELSE IF fd = "closed" /\ maxCount > 0
    THEN [entries |-> <<>>, hasMore |-> FALSE, err |-> ErrReadLength, off |-> off]
    ELSE ReadLoop(file, off, 0, maxCount, <<>>)

ReadAllBatchSize == 1000

\* the loop of ReadAll: [entries, err, off]
RECURSIVE ReadAllLoop(_, _, _, _)
ReadAllLoop(file, off, fd, all) ==
    LET r == readNext(file, off, fd, ReadAllBatchSize) IN
    IF r.err # ErrNil THEN [entries |-> <<>>, err |-> r.err, off |-> r.off]
    ELSE IF ~r.hasMore THEN [entries |-> all \o r.entries, err |-> ErrNil, off |-> r.off]
    ELSE ReadAllLoop(file, r.off, fd, all \o r.entries)

\* ReadAll, between Lock and Unlock
ReadAll(file, off, fd) ==
    IF fd = "nil" THEN [entries |-> <<>>, err |-> errNilFD, off |-> off]
    ELSE IF fd = "closed" THEN [entries |-> <<>>, err |-> ErrClosed, off |-> off]
    ELSE ReadAllLoop(file, 0, fd, <<>>)

(***************************************************************************)
(* The running system: client threads calling a MemTable (Set, Get,        *)
(* Recovery) or a WAL directly (Write, ReadAll, ReadBatch, readNext), and  *)
(* the goroutine ReadBatch starts.                                         *)
(***************************************************************************)
VARIABLES
    walFile,      \* the bytes of the WAL file
    walOff,       \* the offset of the file handle (bytes before it)
    walFd,        \* WAL.fd: "nil", "open", or "closed" (bound, after fd.Close())
    walMu,        \* WAL.mu: its holder, or NoOne
    prod,         \* the ReadBatch goroutine: [pc, batchSize, entries, hasMore]
    chanClosed,   \* entryChan has been closed
    skipList,     \* MemTable.skipList
    mtMu,         \* MemTable.mu: [w: the writer or NoOne, r: the readers]
    once,         \* MemTable.Once: [done: 0 or 1, m: its mutex's holder]
    mtWal,        \* MemTable.wal: "nil", or "bound" to the WAL
    pc,           \* where each thread is
    arg,          \* the argument of each thread's call
    wres,         \* what the WAL call of each thread returned
    batch,        \* the entries each thread holds from the stream
    ret,          \* what each thread's last call returned
    crashed,      \* a goroutine panicked: the process is gone
    opsLeft,      \* calls each thread may still make
    faultsLeft,   \* device faults that may still happen
    durable,      \* history: the entries some Write wrote and synced
    wlog,         \* history: [init: the file at the start, failed: some Write
                  \* failed, entries: what the Writes that succeeded wrote]
    bodyRuns,     \* history: how often the body of Recovery was entered
    recReturns    \* history: how many calls of Recovery have returned

vars == <<walFile, walOff, walFd, walMu, prod, chanClosed, skipList, mtMu, once,
          mtWal, pc, arg, wres, batch, ret, crashed, opsLeft, faultsLeft, durable,
          wlog, bodyRuns, recReturns>>

walVars == <<walFile, walOff, walFd, walMu>>
mtVars == <<skipList, mtMu, once, mtWal>>
histVars == <<durable, wlog, bodyRuns, recReturns>>

Threads == {"t1", "t2"}
NoOne == "none"
Producer == "producer"

\* bounds of the model
MaxOps == 2
MaxFaults == 1
MaxBatchSize == 2

\* NewSkipList(4, 0.5) in NewMebTable; ReadBatch(1000) in Recovery
MemTableMaxLevel == 4
RecoveryBatchSize == 1000

K1 == <<Cha>>
K2 == <<Chb>>
E1 == Entry(K1, <<1>>, FALSE, 1)
E2 == Entry(K2, <<2>>, FALSE, 2)
E3 == Entry(K1, <<>>, TRUE, 3)
BadKeyEntry == Entry(<<ByteBase - 1>>, <<1>>, FALSE, 1)

\* file contents: well-formed ones, and damaged ones
FileOf(entries) == Concat([i \in 1..Len(entries) |-> Frame(entries[i])])
File3 == FileOf(<<E1, E2, E3>>)
FileTruncated == SubSeq(File3, 1, Len(File3) - 1)
FileShortLength == FileOf(<<E1>>) \o <<LenBytes, 0, 0>>
FileZeroLength == FileOf(<<E1, E2>>) \o Int64LE(0) \o Frame(E3)
FileNegativeLength == FileOf(<<E1>>) \o Int64LE(-1)
FileBadPayload == FileOf(<<E1>>) \o Int64LE(3) \o <<TagKey, 5, Cha>>
WellFormedFiles == {<<>>, FileOf(<<E1>>), FileOf(<<E1, E2>>), File3}
DamagedFiles == {FileTruncated, FileShortLength, FileZeroLength,
                 FileNegativeLength, FileBadPayload}

NoWres == [count |-> 0, err |-> ErrNil]

\* arg of a thread outside a call, and arg of a Get: its key, in the Key field
NoArg == NilEntry
KeyArg(k) == Entry(k, <<>>, FALSE, 0)

Ret(op, err, entries, count, hasMore, found) ==
    [op |-> op, err |-> err, entries |-> entries, count |-> count,
     hasMore |-> hasMore, found |-> found]
NoRet == Ret("none", ErrNil, <<>>, 0, FALSE, FALSE)
NoProd == [pc |-> "none", batchSize |-> 0, entries |-> <<>>, hasMore |-> FALSE]

InitCommon ==
    /\ walOff = 0
    /\ walFd \in {"nil", "open"}
    /\ walMu = NoOne
    /\ prod = NoProd
    /\ chanClosed = FALSE
    /\ skipList = NewSkipList(MemTableMaxLevel)
    /\ mtMu = [w |-> NoOne, r |-> {}]
    /\ once = [done |-> 0, m |-> NoOne]
    /\ pc = [t \in Threads |-> "idle"]
    /\ arg = [t \in Threads |-> NoArg]
    /\ wres = [t \in Threads |-> NoWres]
    /\ batch = [t \in Threads |-> <<>>]
    /\ ret = [t \in Threads |-> NoRet]
    /\ crashed = FALSE
    /\ faultsLeft = MaxFaults
    /\ durable = {}
    /\ wlog = [init |-> walFile, failed |-> FALSE, entries |-> <<>>]
    /\ bodyRuns = 0
    /\ recReturns = 0

\* a MemTable over a WAL file left by an earlier run, its wal field holding
\* that WAL, and its callers
Init ==
    /\ walFile \in {<<>>, File3, FileTruncated}
    /\ mtWal = "bound"
    /\ opsLeft = [t \in Threads |-> IF t = "t1" THEN MaxOps ELSE MaxOps - 1]
    /\ InitCommon

(***************************************************************************)
(* WAL steps shared by every caller                                        *)
(***************************************************************************)
\* thread t starts a call with argument a
Calls(t, to, a) ==
    /\ ~crashed
    /\ pc[t] = "idle"
    /\ opsLeft[t] > 0
    /\ pc' = [pc EXCEPT ![t] = to]
    /\ arg' = [arg EXCEPT ![t] = a]
    /\ ret' = [ret EXCEPT ![t] = NoRet]
    /\ opsLeft' = [opsLeft EXCEPT ![t] = @ - 1]
    /\ UNCHANGED <<walVars, prod, chanClosed, mtVars, wres, batch, crashed,
                   faultsLeft, histVars>>

\* thread t returns r from its call: the locals of the call are gone
Returns(t, r) ==
    /\ pc' = [pc EXCEPT ![t] = "idle"]
    /\ ret' = [ret EXCEPT ![t] = r]
    /\ arg' = [arg EXCEPT ![t] = NoArg]
    /\ wres' = [wres EXCEPT ![t] = NoWres]

Faults(entries) ==
    {NoFault} \cup
    IF faultsLeft > 0
    THEN {[kind |-> "seek", n |-> 0], [kind |-> "sync", n |-> 0]}
         \cup {[kind |-> "write", n |-> n] : n \in {0, LenBytes, LenBytes + 1}}
    ELSE {}

\* w.mu.Lock() of Write and ReadAll
WalLock(t, from, to) ==
    /\ ~crashed
    /\ pc[t] = from
    /\ walMu = NoOne
    /\ walMu' = t
    /\ pc' = [pc EXCEPT ![t] = to]
    /\ UNCHANGED <<walFile, walOff, walFd, prod, chanClosed, mtVars, arg, wres,
                   batch, ret, crashed, opsLeft, faultsLeft, histVars>>

\* Write from the nil check to the return, with the deferred Unlock
WalWriteBody(t, entries, fault, to) ==
    LET r == WALWrite(walFile, walOff, walFd, entries, fault) IN
    /\ ~crashed
    /\ walMu = t
    /\ walFile' = r.file
    /\ walOff' = r.off
    /\ walMu' = NoOne
    /\ wres' = [wres EXCEPT ![t] = [count |-> r.count, err |-> r.err]]
    /\ pc' = [pc EXCEPT ![t] = to]
    /\ faultsLeft' = IF fault.kind = "none" THEN faultsLeft ELSE faultsLeft - 1
    /\ durable' = IF r.synced THEN durable \cup {entries[i] : i \in 1..Len(entries)}
                  ELSE durable
    /\ wlog' = IF r.err = ErrNil
               THEN [wlog EXCEPT !.entries = @ \o entries]
               ELSE [wlog EXCEPT !.failed = TRUE]
    /\ UNCHANGED <<walFd, prod, chanClosed, mtVars, arg, batch, crashed, opsLeft,
                   bodyRuns, recReturns>>

(***************************************************************************)
(* MemTable.Set                                                            *)
(***************************************************************************)
SetEntries == {E1, E3, BadKeyEntry}
GetKeys == {K1, K2}

SetCall(t, e) == Calls(t, "set_lock", e)

\* mt.mu.Lock()
SetLock(t) ==
    /\ ~crashed
    /\ pc[t] = "set_lock"
    /\ mtMu.w = NoOne /\ mtMu.r = {}
    /\ mtMu' = [mtMu EXCEPT !.w = t]
    /\ pc' = [pc EXCEPT ![t] = "set_wal_lock"]
    /\ UNCHANGED <<walVars, prod, chanClosed, mtWal, skipList, once, arg, wres, batch,
                   ret, crashed, opsLeft, faultsLeft, histVars>>

\* mt.wal.Write: w.mu.Lock(), on the WAL the MemTable holds
SetWalLock(t) ==
    /\ mtWal = "bound"
    /\ WalLock(t, "set_wal_lock", "set_wal_write")

\* _, err := mt.wal.Write(entry)
SetWalWrite(t) ==
    /\ pc[t] = "set_wal_write"
    /\ \E fault \in Faults(<<arg[t]>>) :
          WalWriteBody(t, <<arg[t]>>, fault, "set_check")
    /\ UNCHANGED ret

\* a Set that goes on to the SkipList whatever Write returned
SetNeverReturnsError(err) == FALSE

\* if err != nil { return err }
SetReturnsError(err) == err # ErrNil

SetCheck(t) ==
    /\ ~crashed
    /\ pc[t] = "set_check"
    /\ IF SetReturnsError(wres[t].err)
       THEN /\ Returns(t, Ret("Set", wres[t].err, <<>>, 0, FALSE, FALSE))
            /\ mtMu' = [mtMu EXCEPT !.w = NoOne]
       ELSE /\ pc' = [pc EXCEPT ![t] = "set_apply"]
            /\ UNCHANGED <<ret, arg, wres, mtMu>>
    /\ UNCHANGED <<walVars, prod, chanClosed, mtWal, skipList, once, batch,
                   crashed, opsLeft, faultsLeft, histVars>>

\* mt.skipList.Set(entry); return nil, with the deferred Unlock
SetApply(t) ==
    /\ ~crashed
    /\ pc[t] = "set_apply"
    /\ \E level \in randomLevel(skipList) :
          skipList' = SkipListSet(skipList, arg[t], level)
    /\ Returns(t, Ret("Set", ErrNil, <<>>, 0, FALSE, FALSE))
    /\ mtMu' = [mtMu EXCEPT !.w = NoOne]
    /\ UNCHANGED <<walVars, prod, chanClosed, mtWal, once, batch, crashed,
                   opsLeft, faultsLeft, histVars>>

(***************************************************************************)
(* MemTable.Get                                                            *)
(***************************************************************************)
GetCall(t, k) == Calls(t, "get_rlock", KeyArg(k))

\* a read lock that does not wait for the writer
RLockAlwaysFree(mu) == TRUE

\* RWMutex.RLock proceeds when no writer holds the lock
RLockFree(mu) == mu.w = NoOne

\* mt.mu.RLock()
GetRLock(t) ==
    /\ ~crashed
    /\ pc[t] = "get_rlock"
    /\ RLockFree(mtMu)
    /\ mtMu' = [mtMu EXCEPT !.r = @ \cup {t}]
    /\ pc' = [pc EXCEPT ![t] = "get_read"]
    /\ UNCHANGED <<walVars, prod, chanClosed, mtWal, skipList, once, arg, wres, batch,
                   ret, crashed, opsLeft, faultsLeft, histVars>>

\* return mt.skipList.Get(key), with the deferred RUnlock
GetRead(t) ==
    LET g == SkipListGet(skipList, arg[t].Key) IN
    /\ ~crashed
    /\ pc[t] = "get_read"
    /\ Returns(t, Ret("Get", ErrNil, IF g.found THEN <<g.entry>> ELSE <<>>, 0,
                      FALSE, g.found))
    /\ mtMu' = [mtMu EXCEPT !.r = @ \ {t}]
    /\ UNCHANGED <<walVars, prod, chanClosed, mtWal, skipList, once, batch,
                   crashed, opsLeft, faultsLeft, histVars>>

(***************************************************************************)
(* MemTable.Recovery: mt.Once.Do(body).  sync.Once: Do reads done and      *)
(* calls doSlow when it is 0; doSlow locks m, reads done again, runs the   *)
(* body when it is still 0, then stores done = 1 and unlocks m.            *)
(***************************************************************************)
RecoveryCall(t) == Calls(t, "rec_do", NoArg)

RecoveryRet == Ret("Recovery", ErrNil, <<>>, 0, FALSE, FALSE)

\* return from Recovery (it has no result)
RecoveryReturns(t) ==
    /\ pc' = [pc EXCEPT ![t] = "idle"]
    /\ ret' = [ret EXCEPT ![t] = RecoveryRet]
    /\ recReturns' = recReturns + 1

\* a guard whose callers do not wait for a running body
OnceIsDoneOrRunning(o) == o.done # 0 \/ o.m # NoOne

\* Once.Do: if o.done.Load() == 0 { o.doSlow(f) }
OnceIsDone(o) == o.done # 0

\* Once.Do: the fast path
OnceDo(t) ==
    /\ ~crashed
    /\ pc[t] = "rec_do"
    /\ IF ~OnceIsDone(once)
       THEN /\ pc' = [pc EXCEPT ![t] = "rec_slow"]
            /\ UNCHANGED <<ret, recReturns>>
       ELSE RecoveryReturns(t)
    /\ UNCHANGED <<walVars, prod, chanClosed, mtVars, arg, wres, batch, crashed,
                   opsLeft, faultsLeft, durable, wlog, bodyRuns>>

\* doSlow: o.m.Lock()
OnceLock(t) ==
    /\ ~crashed
    /\ pc[t] = "rec_slow"
    /\ once.m = NoOne
    /\ once' = [once EXCEPT !.m = t]
    /\ pc' = [pc EXCEPT ![t] = "rec_check"]
    /\ UNCHANGED <<walVars, prod, chanClosed, mtWal, skipList, mtMu, arg, wres, batch,
                   ret, crashed, opsLeft, faultsLeft, histVars>>

\* a guard that runs the body on every call
OnceAlwaysRunsBody(o) == TRUE

\* doSlow: if o.done.Load() == 0 { f() }
OnceRunsBody(o) == o.done = 0

OnceCheck(t) ==
    /\ ~crashed
    /\ pc[t] = "rec_check"
    /\ IF OnceRunsBody(once)
       THEN /\ pc' = [pc EXCEPT ![t] = "rec_body"]
            /\ bodyRuns' = bodyRuns + 1
            /\ UNCHANGED <<once, ret, recReturns>>
       ELSE /\ RecoveryReturns(t)
            /\ once' = [once EXCEPT !.m = NoOne]
            /\ UNCHANGED bodyRuns
    /\ UNCHANGED <<walVars, prod, chanClosed, mtWal, skipList, mtMu, arg, wres, batch,
                   crashed, opsLeft, faultsLeft, durable, wlog>>

\* a guard that forgets that the body ran
OnceStoreSkipped(o) == [o EXCEPT !.m = NoOne]

\* defer o.m.Unlock(); defer o.done.Store(1)
OnceStore(o) == [o EXCEPT !.done = 1, !.m = NoOne]

\* the body returned: done.Store(1), m.Unlock(), Recovery returns
BodyReturns(t) ==
    /\ once' = OnceStore(once)
    /\ RecoveryReturns(t)

\* a ReadBatch that starts the goroutine whatever the handle is
ReadBatchNeverFails(fd) == FALSE

\* ReadBatch: the nil check without the lock, then the channel and the goroutine
ReadBatchFails(fd) == fd = "nil"

\* entryChan, err := mt.wal.ReadBatch(1000); if err != nil { log; return }
RecoveryReadBatch(t) ==
    /\ ~crashed
    /\ pc[t] = "rec_body"
    /\ mtWal = "bound"
    /\ IF ReadBatchFails(walFd)
       THEN /\ BodyReturns(t)
            /\ UNCHANGED <<prod, chanClosed>>
       ELSE /\ prod' = [pc |-> "lock", batchSize |-> RecoveryBatchSize,
                        entries |-> <<>>, hasMore |-> FALSE]
            /\ chanClosed' = FALSE
            /\ pc' = [pc EXCEPT ![t] = "rec_recv"]
            /\ UNCHANGED <<once, ret, recReturns>>
    /\ UNCHANGED <<walVars, mtWal, skipList, mtMu, arg, wres, batch, crashed, opsLeft,
                   faultsLeft, durable, wlog, bodyRuns>>

\* a goroutine that closes the channel after its first batch
AfterSendCloses(p) == [p EXCEPT !.pc = "close", !.entries = <<>>]

\* where the goroutine goes after a send: if !hasMore { close } else loop
AfterSend(p) == [p EXCEPT !.pc = IF p.hasMore THEN "read" ELSE "close",
                          !.entries = <<>>]

\* entries := <-entryChan meeting entryChan <- entries; if entries == nil { break }
RecoveryRecv(t) ==
    /\ ~crashed
    /\ pc[t] = "rec_recv"
    /\ prod.pc = "send"
    /\ prod' = AfterSend(prod)
    /\ IF prod.entries = <<>>
       THEN /\ BodyReturns(t)
            /\ UNCHANGED batch
       ELSE /\ batch' = [batch EXCEPT ![t] = prod.entries]
            /\ pc' = [pc EXCEPT ![t] = "rec_apply"]
            /\ UNCHANGED <<once, ret, recReturns>>
    /\ UNCHANGED <<walVars, chanClosed, mtWal, skipList, mtMu, arg, wres, crashed,
                   opsLeft, faultsLeft, durable, wlog, bodyRuns>>

\* entries := <-entryChan on the closed channel: nil, break
RecoveryRecvClosed(t) ==
    /\ ~crashed
    /\ pc[t] = "rec_recv"
    /\ chanClosed
    /\ BodyReturns(t)
    /\ UNCHANGED <<walVars, prod, chanClosed, mtWal, skipList, mtMu, arg, wres, batch,
                   crashed, opsLeft, faultsLeft, durable, wlog, bodyRuns>>

\* for _, entry := range entries { mt.skipList.Set(entry) }, one entry a step
RecoveryApply(t) ==
    /\ ~crashed
    /\ pc[t] = "rec_apply"
    /\ \E level \in randomLevel(skipList) :
          skipList' = SkipListSet(skipList, Head(batch[t]), level)
    /\ batch' = [batch EXCEPT ![t] = Tail(@)]
    /\ pc' = [pc EXCEPT ![t] = IF Len(batch[t]) = 1 THEN "rec_recv" ELSE "rec_apply"]
    /\ UNCHANGED <<walVars, prod, chanClosed, mtWal, mtMu, once, arg, wres, ret,
                   crashed, opsLeft, faultsLeft, histVars>>

(***************************************************************************)
(* The goroutine of ReadBatch                                              *)
(***************************************************************************)
\* a goroutine that does not wait for the lock
MutexAlwaysFree(mu) == TRUE

\* sync.Mutex.Lock proceeds when nobody holds the lock
MutexFree(mu) == mu = NoOne

\* w.mu.Lock()
ProducerLock ==
    /\ ~crashed
    /\ prod.pc = "lock"
    /\ MutexFree(walMu)
    /\ walMu' = Producer
    /\ prod' = [prod EXCEPT !.pc = "seek"]
    /\ UNCHANGED <<walFile, walOff, walFd, chanClosed, mtVars, pc, arg, wres,
                   batch, ret, crashed, opsLeft, faultsLeft, histVars>>

\* w.fd.Seek(0, io.SeekStart)
ProducerSeek ==
    /\ ~crashed
    /\ prod.pc = "seek"
    /\ IF walFd = "open"
       THEN /\ walOff' = 0
            /\ prod' = [prod EXCEPT !.pc = "read"]
            /\ UNCHANGED crashed
       ELSE /\ crashed' = TRUE
            /\ prod' = [prod EXCEPT !.pc = "panicked"]
            /\ UNCHANGED walOff
    /\ UNCHANGED <<walFile, walFd, walMu, chanClosed, mtVars, pc, arg, wres,
                   batch, ret, opsLeft, faultsLeft, histVars>>

\* what the goroutine does with an error of readNext: panic(err)
ProducerPanics(err) == err # ErrNil

\* entries, hasMore, err := w.readNext(batchSize); if err != nil { panic(err) }
ProducerRead ==
    LET r == readNext(walFile, walOff, walFd, prod.batchSize) IN
    /\ ~crashed
    /\ prod.pc = "read"
    /\ walOff' = r.off
    /\ IF ProducerPanics(r.err)
       THEN /\ crashed' = TRUE
            /\ prod' = [prod EXCEPT !.pc = "panicked"]
       ELSE /\ prod' = [prod EXCEPT !.pc = "send", !.entries = r.entries,
                                    !.hasMore = r.hasMore]
            /\ UNCHANGED crashed
    /\ UNCHANGED <<walFile, walFd, walMu, chanClosed, mtVars, pc, arg, wres,
                   batch, ret, opsLeft, faultsLeft, histVars>>

\* a goroutine that ends with the lock in its hand
ProducerKeepsLock(mu) == mu

\* defer w.mu.Unlock() of the goroutine
ProducerUnlock(mu) == NoOne

\* close(entryChan); break, with the deferred Unlock
ProducerClose ==
    /\ ~crashed
    /\ prod.pc = "close"
    /\ chanClosed' = TRUE
    /\ walMu' = ProducerUnlock(walMu)
    /\ prod' = [prod EXCEPT !.pc = "done"]
    /\ UNCHANGED <<walFile, walOff, walFd, mtVars, pc, arg, wres, batch, ret,
                   crashed, opsLeft, faultsLeft, histVars>>

ProducerNext == ProducerLock \/ ProducerSeek \/ ProducerRead \/ ProducerClose

Next ==
    \/ \E t \in Threads :
          \/ \E e \in SetEntries : SetCall(t, e)
          \/ SetLock(t)
          \/ SetWalLock(t)
          \/ SetWalWrite(t)
          \/ SetCheck(t)
          \/ SetApply(t)
          \/ \E k \in GetKeys : GetCall(t, k)
          \/ GetRLock(t)
          \/ GetRead(t)
          \/ RecoveryCall(t)
          \/ OnceDo(t)
          \/ OnceLock(t)
          \/ OnceCheck(t)
          \/ RecoveryReadBatch(t)
          \/ RecoveryRecv(t)
          \/ RecoveryRecvClosed(t)
          \/ RecoveryApply(t)
    \/ ProducerNext

Spec == Init /\ [][Next]_vars

\* The scheduler runs every goroutine that can take a step, and a goroutine
\* waiting for a mutex or for the channel gets it once it stays available:
\* weak fairness of the steps of every call in progress and of the goroutine
\* of ReadBatch.  CanContinue(t) is ENABLED of the step of thread t at its pc
\* (the guards of the actions above), and Continues(t) is that step.
CanContinue(t) ==
    /\ ~crashed
    /\ \/ pc[t] \in {"set_wal_write", "set_check", "set_apply", "get_read",
                     "rec_do", "rec_check", "rec_body", "rec_apply"}
       \/ pc[t] = "set_lock" /\ mtMu.w = NoOne /\ mtMu.r = {}
       \/ pc[t] = "set_wal_lock" /\ walMu = NoOne
       \/ pc[t] = "get_rlock" /\ RLockFree(mtMu)
       \/ pc[t] = "rec_slow" /\ once.m = NoOne
       \/ pc[t] = "rec_recv" /\ (prod.pc = "send" \/ chanClosed)

Continues(t) ==
    /\ pc[t] # "idle"
    /\ pc'[t] # pc[t] \/ batch'[t] # batch[t]

ProducerCanContinue ==
    /\ ~crashed
    /\ \/ prod.pc \in {"seek", "read", "close"}
       \/ prod.pc = "lock" /\ MutexFree(walMu)

ProducerContinues ==
    /\ prod.pc \in {"lock", "seek", "read", "close"}
    /\ prod'.pc # prod.pc

Fairness ==
    /\ []<>(~ProducerCanContinue) \/ []<><<ProducerContinues>>_vars
    /\ \A t \in Threads : []<>(~CanContinue(t)) \/ []<><<Continues(t)>>_vars

\* the MemTable with every thread making one call
MaxLiveOps == 1

InitLive ==
    /\ mtWal = "bound"
    /\ walFile \in {<<>>, File3, FileTruncated}
    /\ opsLeft = [t \in Threads |-> MaxLiveOps]
    /\ InitCommon

SpecLive == InitLive /\ [][Next]_vars /\ Fairness

(***************************************************************************)
(* The MemTable as NewMebTable returns it: the composite literal sets      *)
(* skipList and walDir and leaves wal nil, and nothing assigns wal later.  *)
(* Write and ReadBatch have the receiver w = mt.wal; w.mu.Lock() in Write  *)
(* and w.fd in ReadBatch dereference it.  A nil w is a run-time panic: the *)
(* deferred calls of the goroutine run, nothing recovers, the process      *)
(* ends.                                                                   *)
(***************************************************************************)
MaxNewOps == 2

\* _, err := mt.wal.Write(entry) with mt.wal nil: w.mu.Lock() panics, the
\* deferred mt.mu.Unlock() runs
SetNilWal(t) ==
    /\ ~crashed
    /\ pc[t] = "set_wal_lock"
    /\ mtWal = "nil"
    /\ crashed' = TRUE
    /\ pc' = [pc EXCEPT ![t] = "panicked"]
    /\ mtMu' = [mtMu EXCEPT !.w = NoOne]
    /\ UNCHANGED <<walVars, prod, chanClosed, skipList, once, mtWal, arg, wres,
                   batch, ret, opsLeft, faultsLeft, histVars>>

\* entryChan, err := mt.wal.ReadBatch(1000) with mt.wal nil: w.fd panics,
\* the deferred done.Store(1) and m.Unlock() of doSlow run
RecoveryNilWal(t) ==
    /\ ~crashed
    /\ pc[t] = "rec_body"
    /\ mtWal = "nil"
    /\ crashed' = TRUE
    /\ pc' = [pc EXCEPT ![t] = "panicked"]
    /\ once' = OnceStore(once)
    /\ UNCHANGED <<walVars, prod, chanClosed, skipList, mtMu, mtWal, arg, wres,
                   batch, ret, opsLeft, faultsLeft, histVars>>

\* return &MemTable{skipList: skiplist.NewSkipList(4, 0.5), walDir: walDir},
\* over a directory with or without a log, and no WAL object
InitNewMebTable ==
    /\ walFile \in {<<>>, File3}
    /\ walFd = "nil"
    /\ mtWal = "nil"
    /\ opsLeft = [t \in Threads |-> MaxNewOps]
    /\ InitCommon

\* the steps of Set, Get and Recovery on that MemTable: each call up to its
\* return, or up to its use of mt.wal (SetWalLock and RecoveryReadBatch, the
\* steps on a bound WAL, cannot be taken)
NextNewMebTable ==
    \E t \in Threads :
       \/ \E e \in SetEntries : SetCall(t, e)
       \/ SetLock(t)
       \/ SetNilWal(t)
       \/ \E k \in GetKeys : GetCall(t, k)
       \/ GetRLock(t)
       \/ GetRead(t)
       \/ RecoveryCall(t)
       \/ OnceDo(t)
       \/ OnceLock(t)
       \/ OnceCheck(t)
       \/ RecoveryNilWal(t)

SpecNewMebTable == InitNewMebTable /\ [][NextNewMebTable]_vars

(***************************************************************************)
(* A client of the WAL alone: Write, ReadAll, a ReadBatch stream received  *)
(* until it is closed, and readNext called from the start of the file      *)
(* until it reports no more (as TestWAL_ReadNext does).                    *)
(***************************************************************************)
WriteBatches == {<<>>, <<E1>>, <<E2, E3>>, <<NilEntry>>, <<E1, BadKeyEntry>>}

WriteCall(t, entries) == Calls(t, "w_lock", entries)

WriteLock(t) == WalLock(t, "w_lock", "w_write")

WriteBody(t) ==
    /\ pc[t] = "w_write"
    /\ \E fault \in Faults(arg[t]) : WalWriteBody(t, arg[t], fault, "w_ret")
    /\ UNCHANGED ret

WriteReturn(t) ==
    /\ ~crashed
    /\ pc[t] = "w_ret"
    /\ Returns(t, Ret("Write", wres[t].err, <<>>, wres[t].count, FALSE, FALSE))
    /\ UNCHANGED <<walVars, prod, chanClosed, mtVars, batch, crashed, opsLeft,
                   faultsLeft, histVars>>

ReadAllCall(t) == Calls(t, "ra_lock", NoArg)

ReadAllLock(t) == WalLock(t, "ra_lock", "ra_read")

\* ReadAll from the nil check to the return, with the deferred Unlock
ReadAllBody(t) ==
    LET r == ReadAll(walFile, walOff, walFd) IN
    /\ ~crashed
    /\ pc[t] = "ra_read"
    /\ walMu = t
    /\ walOff' = r.off
    /\ walMu' = NoOne
    /\ Returns(t, Ret("ReadAll", r.err, r.entries, 0, FALSE, FALSE))
    /\ UNCHANGED <<walFile, walFd, prod, chanClosed, mtVars, batch, crashed,
                   opsLeft, faultsLeft, histVars>>

BatchSizes == 1..MaxBatchSize

ReadBatchCall(t, batchSize) == Calls(t, "rb_call", batchSize)

\* ReadBatch itself: errNilFD, or the channel and the goroutine
ReadBatchBody(t) ==
    /\ ~crashed
    /\ pc[t] = "rb_call"
    /\ IF ReadBatchFails(walFd)
       THEN /\ Returns(t, Ret("ReadBatch", errNilFD, <<>>, 0, FALSE, FALSE))
            /\ UNCHANGED <<prod, chanClosed>>
       ELSE /\ prod' = [pc |-> "lock", batchSize |-> arg[t], entries |-> <<>>,
                        hasMore |-> FALSE]
            /\ chanClosed' = FALSE
            /\ pc' = [pc EXCEPT ![t] = "rb_recv"]
            /\ UNCHANGED <<ret, arg, wres>>
    /\ UNCHANGED <<walVars, mtVars, batch, crashed, opsLeft, faultsLeft, histVars>>

\* the client receives a batch
StreamRecv(t) ==
    /\ ~crashed
    /\ pc[t] = "rb_recv"
    /\ prod.pc = "send"
    /\ prod' = AfterSend(prod)
    /\ batch' = [batch EXCEPT ![t] = @ \o prod.entries]
    /\ UNCHANGED <<walVars, chanClosed, mtVars, pc, arg, wres, ret, crashed,
                   opsLeft, faultsLeft, histVars>>

\* the client finds the channel closed: it has the whole stream
StreamRecvClosed(t) ==
    /\ ~crashed
    /\ pc[t] = "rb_recv"
    /\ chanClosed
    /\ Returns(t, Ret("ReadBatch", ErrNil, batch[t], 0, FALSE, FALSE))
    /\ batch' = [batch EXCEPT ![t] = <<>>]
    /\ UNCHANGED <<walVars, prod, chanClosed, mtVars, crashed, opsLeft,
                   faultsLeft, histVars>>

\* wal.fd.Seek(0, 0) before the first readNext
ReadNextCall(t, maxCount) ==
    /\ Calls(t, "rn_seek", maxCount)
    /\ walMu = NoOne

ReadNextSeek(t) ==
    /\ ~crashed
    /\ pc[t] = "rn_seek"
    /\ walOff' = IF walFd = "open" THEN 0 ELSE walOff
    /\ pc' = [pc EXCEPT ![t] = "rn_loop"]
    /\ UNCHANGED <<walFile, walFd, walMu, prod, chanClosed, mtVars, arg, wres,
                   batch, ret, crashed, opsLeft, faultsLeft, histVars>>

\* entries, hasMore, err := wal.readNext(batchSize), until !hasMore or an error;
\* ret holds what this call returned and batch what the calls returned so far
ReadNextStep(t) ==
    LET r == readNext(walFile, walOff, walFd, arg[t]) IN
    /\ ~crashed
    /\ pc[t] = "rn_loop"
    /\ walOff' = r.off
    /\ ret' = [ret EXCEPT ![t] =
                 Ret("readNext", r.err, r.entries, Len(r.entries), r.hasMore, FALSE)]
    /\ batch' = [batch EXCEPT ![t] = @ \o r.entries]
    /\ pc' = [pc EXCEPT ![t] = IF r.err = ErrNil /\ r.hasMore THEN "rn_loop"
                               ELSE "rn_done"]
    /\ UNCHANGED <<walFile, walFd, walMu, prod, chanClosed, mtVars, arg, wres,
                   crashed, opsLeft, faultsLeft, histVars>>

ReadNextDone(t) ==
    /\ ~crashed
    /\ pc[t] = "rn_done"
    /\ Returns(t, Ret("readNextLoop", ret[t].err, batch[t], Len(batch[t]), FALSE,
                      FALSE))
    /\ batch' = [batch EXCEPT ![t] = <<>>]
    /\ UNCHANGED <<walVars, prod, chanClosed, mtVars, crashed, opsLeft,
                   faultsLeft, histVars>>

\* wal.fd.Close(): the handle stays bound to the closed file
CloseCall(t) ==
    /\ Calls(t, "cl_close", NoArg)
    /\ walFd = "open"

CloseBody(t) ==
    /\ ~crashed
    /\ pc[t] = "cl_close"
    /\ walFd' = "closed"
    /\ Returns(t, Ret("Close", ErrNil, <<>>, 0, FALSE, FALSE))
    /\ UNCHANGED <<walFile, walOff, walMu, prod, chanClosed, mtVars, batch,
                   crashed, opsLeft, faultsLeft, histVars>>

WalClients == {"t1"}
MaxWalOps == 3

InitWAL ==
    /\ mtWal = "nil"
    /\ walFile \in WellFormedFiles \cup DamagedFiles
    /\ opsLeft = [t \in Threads |-> IF t \in WalClients THEN MaxWalOps ELSE 0]
    /\ InitCommon

NextWAL ==
    \/ \E t \in WalClients :
          \/ \E entries \in WriteBatches : WriteCall(t, entries)
          \/ WriteLock(t)
          \/ WriteBody(t)
          \/ WriteReturn(t)
          \/ ReadAllCall(t)
          \/ ReadAllLock(t)
          \/ ReadAllBody(t)
          \/ \E batchSize \in BatchSizes : ReadBatchCall(t, batchSize)
          \/ ReadBatchBody(t)
          \/ StreamRecv(t)
          \/ StreamRecvClosed(t)
          \/ \E maxCount \in BatchSizes : ReadNextCall(t, maxCount)
          \/ ReadNextSeek(t)
          \/ ReadNextStep(t)
          \/ ReadNextDone(t)
          \/ CloseCall(t)
          \/ CloseBody(t)
    \/ ProducerNext

SpecWAL == InitWAL /\ [][NextWAL]_vars

(***************************************************************************)
(* Two clients of one WAL: a reader (ReadBatch received to its end, or     *)
(* ReadAll) and a writer (Write, ReadAll) running at the same time.        *)
(***************************************************************************)
WalReader == "t1"
WalWriter == "t2"
MaxWriterOps == 2

InitShared ==
    /\ mtWal = "nil"
    /\ walFile \in WellFormedFiles
    /\ walFd = "open"
    /\ opsLeft = [t \in Threads |-> IF t = WalWriter THEN MaxWriterOps ELSE 1]
    /\ InitCommon

NextShared ==
    \/ \E batchSize \in BatchSizes : ReadBatchCall(WalReader, batchSize)
    \/ ReadBatchBody(WalReader)
    \/ StreamRecv(WalReader)
    \/ StreamRecvClosed(WalReader)
    \/ \E entries \in WriteBatches : WriteCall(WalWriter, entries)
    \/ WriteLock(WalWriter)
    \/ WriteBody(WalWriter)
    \/ WriteReturn(WalWriter)
    \/ \E t \in Threads : ReadAllCall(t) \/ ReadAllLock(t) \/ ReadAllBody(t)
    \/ ProducerNext

SpecShared == InitShared /\ [][NextShared]_vars

(***************************************************************************)
(* A client of the SkipList alone: a sequence of Set calls by one thread,  *)
(* with Get, Scan and All called on what they built.  wlog.entries holds   *)
(* the entries passed to Set, in call order.                               *)
(***************************************************************************)
MaxSLOps == 3

\* keys: "", "a", "b", "a@1", "a@01", "a@2"
KEmpty == <<>>
KA1 == <<Cha, ChAt, Ch0 + 1>>
KA01 == <<Cha, ChAt, Ch0, Ch0 + 1>>
KA2 == <<Cha, ChAt, Ch0 + 2>>
SLKeys == {KEmpty, K1, K2, KA1, KA01, KA2}
SLEntries ==
    {Entry(k, <<1>>, FALSE, 1) : k \in SLKeys}
    \cup {Entry(k, <<2, 2>>, TRUE, 2) : k \in {K1, KA01}}
ScanBounds == {K1, KA1, K2}

SLClient == "t1"

\* the client looks at the list once after a Set
Queries == ret[SLClient].op \in {"none", "SkipList.Set"}

\* what a SkipList call leaves the rest of the system: untouched
SLFrame ==
    UNCHANGED <<walVars, prod, chanClosed, mtWal, mtMu, once, pc, wres, batch, crashed,
                faultsLeft, durable, bodyRuns, recReturns>>

\* sl.Set(entry)
SLSet(entry) ==
    /\ opsLeft[SLClient] > 0
    /\ \E level \in randomLevel(skipList) :
          skipList' = SkipListSet(skipList, entry, level)
    /\ opsLeft' = [opsLeft EXCEPT ![SLClient] = @ - 1]
    /\ wlog' = [wlog EXCEPT !.entries = Append(@, entry)]
    /\ arg' = [arg EXCEPT ![SLClient] = entry.Key]
    /\ ret' = [ret EXCEPT ![SLClient] = Ret("SkipList.Set", ErrNil, <<>>, 0, FALSE, FALSE)]
    /\ SLFrame

\* result, found := sl.Get(key)
SLGet(key) ==
    LET g == SkipListGet(skipList, key) IN
    /\ Queries
    /\ arg' = [arg EXCEPT ![SLClient] = key]
    /\ ret' = [ret EXCEPT ![SLClient] =
                 Ret("SkipList.Get", ErrNil, IF g.found THEN <<g.entry>> ELSE <<>>,
                     0, FALSE, g.found)]
    /\ UNCHANGED <<skipList, opsLeft, wlog>>
    /\ SLFrame

\* result := sl.Scan(start, end)
SLScan(start, end) ==
    LET r == SkipListScan(skipList, start, end) IN
    /\ Queries
    /\ arg' = [arg EXCEPT ![SLClient] = <<start, end>>]
    /\ ret' = [ret EXCEPT ![SLClient] =
                 Ret("SkipList.Scan", ErrNil, r, Len(r), FALSE, FALSE)]
    /\ UNCHANGED <<skipList, opsLeft, wlog>>
    /\ SLFrame

\* all := sl.All()
SLAll ==
    LET r == SkipListAll(skipList) IN
    /\ Queries
    /\ ~r.panics
    /\ arg' = [arg EXCEPT ![SLClient] = <<>>]
    /\ ret' = [ret EXCEPT ![SLClient] =
                 Ret("SkipList.All", ErrNil, r.entries, Len(r.entries), FALSE, FALSE)]
    /\ UNCHANGED <<skipList, opsLeft, wlog>>
    /\ SLFrame

InitSL ==
    /\ mtWal = "nil"
    /\ walFile = <<>>
    /\ walFd = "nil"
    /\ opsLeft = [t \in Threads |-> IF t = SLClient THEN MaxSLOps ELSE 0]
    /\ InitCommon

NextSL ==
    \/ \E entry \in SLEntries : SLSet(entry)
    \/ \E key \in SLKeys : SLGet(key)
    \/ \E start \in ScanBounds, end \in ScanBounds : SLScan(start, end)
    \/ SLAll

SpecSL == InitSL /\ [][NextSL]_vars

(***************************************************************************)
(* A caller of CompareKey alone: it compares the first two of three keys.  *)
(***************************************************************************)
\* keys: "a@0", "a1", "a@", "b@1", next to those of the SkipList client
KA0 == <<Cha, ChAt, Ch0>>
KADigit == <<Cha, Ch0 + 1>>
KAAt == <<Cha, ChAt>>
KB1 == <<Chb, ChAt, Ch0 + 1>>
CmpKeys == SLKeys \cup {KA0, KADigit, KAAt, KB1}

\* result := utils.CompareKey(a, b), with c a third key at hand
CmpCompare(a, b, c) ==
    /\ arg' = [arg EXCEPT ![SLClient] = <<a, b, c>>]
    /\ ret' = [ret EXCEPT ![SLClient] =
                 Ret("CompareKey", ErrNil, <<>>, CompareKey(a, b), FALSE, FALSE)]
    /\ UNCHANGED <<skipList, opsLeft, wlog>>
    /\ SLFrame

InitCmp ==
    /\ mtWal = "nil"
    /\ walFile = <<>>
    /\ walFd = "nil"
    /\ opsLeft = [t \in Threads |-> 0]
    /\ InitCommon

NextCmp == \E a \in CmpKeys, b \in CmpKeys, c \in CmpKeys : CmpCompare(a, b, c)

SpecCmp == InitCmp /\ [][NextCmp]_vars

(***************************************************************************)
(* Properties of the MemTable (specification Spec)                         *)
(***************************************************************************)
SetPcs == {"set_lock", "set_wal_lock", "set_wal_write", "set_check", "set_apply"}
RecoveryPcs == {"rec_do", "rec_slow", "rec_check", "rec_body", "rec_recv",
                "rec_apply"}
BodyPcs == {"rec_body", "rec_recv", "rec_apply"}

IsSuffix(x, y) == Len(x) <= Len(y) /\ SubSeq(y, Len(y) - Len(x) + 1, Len(y)) = x

\* thread t takes a step
Steps(t) == pc'[t] # pc[t]

\* what a node shows of an entry: its key (up to KeyOrder), value and tombstone
Shows(node, e) ==
    /\ CompareKey(node.Key, e.Key) = 0
    /\ node.Value = e.Value
    /\ node.Tombstone = e.Tombstone

\* C1: a Set applies its entry to the SkipList only after its own WAL Write
\* appended the framed record and synced it, so that, as long as only Set and
\* Get have run (no replay), every entry Get can return is one whose Write
\* and sync have completed.
C1_LogBeforeApply ==
    /\ [](bodyRuns = 0 =>
            \A n \in 1..Len(skipList.nodes) :
                \E e \in durable : Shows(skipList.nodes[n], e))
    /\ [][\A t \in Threads :
            (pc[t] = "set_apply" /\ Steps(t)) =>
                /\ arg[t] \in durable
                /\ wres[t].err = ErrNil
                /\ IsSuffix(Frame(arg[t]), walFile)]_vars

\* a Get has returned an entry while another Set is inside its WAL Write
C1_Witness ==
    /\ bodyRuns = 0
    /\ \E t \in Threads, u \in Threads :
          /\ ret[t].op = "Get" /\ ret[t].found
          /\ pc[u] = "set_wal_write"

\* C2: when the Write of a Set fails, Set returns that error and no step of
\* the call changes the SkipList: only the apply step of a Set whose Write
\* returned nil changes it.
C2_FailedWriteLeavesIndex ==
    [][\A t \in Threads :
          (pc[t] \in SetPcs /\ Steps(t)) =>
              /\ (skipList' # skipList =>
                     pc[t] = "set_apply" /\ wres[t].err = ErrNil)
              /\ (pc[t] = "set_check" /\ wres[t].err # ErrNil =>
                     /\ pc'[t] = "idle"
                     /\ ret'[t] = Ret("Set", wres[t].err, <<>>, 0, FALSE, FALSE)
                     /\ skipList' = skipList)]_vars

\* a Set returned a sync error, with entries in the SkipList
C2_Witness ==
    \E t \in Threads :
        /\ ret[t].op = "Set" /\ ret[t].err = ErrSync
        /\ skipList.count > 0

\* the last record of a log for each of its keys
LastOf(log, k) ==
    log[CHOOSE i \in 1..Len(log) :
            /\ log[i].Key = k
            /\ \A j \in (i + 1)..Len(log) : log[j].Key # k]

KeysOf(log) == {log[i].Key : i \in 1..Len(log)}

\* the replay has run to its end on a file that nothing was appended to
Replayed ==
    /\ once.done = 1
    /\ ~crashed
    /\ walFd = "open"
    /\ walFile = wlog.init
    /\ \A t \in Threads : pc[t] \notin SetPcs

\* C3: after Recovery on a fresh MemTable, count is the number of distinct
\* keys of the log and Get(k) returns the last record of k: its value, its
\* tombstone and its version.
C3_ReplayLastWins ==
    Replayed =>
        LET log == ReadAll(walFile, 0, walFd).entries IN
        /\ skipList.count = Cardinality(KeysOf(log))
        /\ \A k \in KeysOf(log) :
              SkipListGet(skipList, k) = [entry |-> LastOf(log, k), found |-> TRUE]

\* the guard of Recovery
Guard ==
    IF once.done = 1 THEN "Done"
    ELSE IF \E t \in Threads : pc[t] \in BodyPcs THEN "Running"
    ELSE "NotStarted"

GuardMoves ==
    \/ Guard' = Guard
    \/ Guard = "NotStarted" /\ Guard' = "Running"
    \/ Guard = "Running" /\ Guard' = "Done"

\* C4: the body of Recovery is entered at most once, by at most one thread at
\* a time, and the guard only moves NotStarted -> Running -> Done.
C4_ReplayAtMostOnce ==
    /\ [](bodyRuns <= 1)
    /\ [](Cardinality({t \in Threads : pc[t] \in BodyPcs}) <= 1)
    /\ [][GuardMoves]_vars

\* both threads called Recovery and have returned; the body ran once
C4_Witness ==
    /\ \A t \in Threads : ret[t].op = "Recovery"
    /\ bodyRuns = 1
    /\ once.done = 1
    /\ skipList.count > 0

\* C5: once a call of Recovery has returned, no step of a later Recovery call
\* changes the SkipList, the WAL or the stream: a second call leaves the state
\* of the first, also when the first ended on the nil file handle.
C5_SecondRecoveryNoOp ==
    [][\A t \in Threads :
          (recReturns >= 1 /\ pc[t] \in RecoveryPcs /\ Steps(t)) =>
              /\ skipList' = skipList
              /\ UNCHANGED <<walVars, prod, chanClosed>>
              /\ once'.done = 1]_vars

\* one thread has returned from Recovery twice: the first call replayed the
\* log, the second found the guard Done
C5_Witness ==
    /\ \E t \in Threads :
          /\ ret[t].op = "Recovery" /\ pc[t] = "idle"
          /\ \A u \in Threads \ {t} : ret[u].op = "none" /\ pc[u] = "idle"
    /\ recReturns = 2
    /\ bodyRuns = 1
    /\ skipList.count = 2

\* C6: a read failure of the ReadBatch goroutine does not crash the process.
C6_ReadFailureDoesNotCrash == ~crashed

(***************************************************************************)
(* Properties of the WAL (specification SpecWAL)                           *)
(***************************************************************************)
\* C7: on a file that was empty and has seen successful Writes only, ReadAll
\* returns the concatenation of the written batches, in write order, every
\* record with the fields it was written with.
C7_WriteReadAllRoundTrip ==
    \A t \in WalClients :
        (/\ ret[t].op = "ReadAll"
         /\ walFd = "open"
         /\ wlog.init = <<>>
         /\ ~wlog.failed) =>
            /\ ret[t].err = ErrNil
            /\ ret[t].entries = wlog.entries

\* C8: on a well-formed file (one that ReadAll reads to its end), a ReadBatch
\* stream received until it is closed, and readNext called from the start of
\* the file until hasMore is false, both yield the sequence ReadAll returns,
\* for every batch size; the stream does not fail.
C8_BatchedReadEquivalence ==
    LET all == ReadAll(walFile, 0, "open") IN
    all.err = ErrNil =>
        /\ (walFd = "open" => ~crashed)
        /\ \A t \in WalClients :
              /\ (ret[t].op = "ReadBatch" /\ walFd = "open") =>
                     /\ ret[t].err = ErrNil
                     /\ ret[t].entries = all.entries
              /\ (ret[t].op = "readNextLoop" /\ walFd = "open") =>
                     /\ ret[t].err = ErrNil
                     /\ ret[t].entries = all.entries

\* a stream over a file of two records was received to its end: two records
\* are a multiple of both batch sizes
C8_Witness ==
    \E t \in WalClients :
        /\ ret[t].op = "ReadBatch"
        /\ walFile = FileOf(<<E1, E2>>)
        /\ ret[t].entries = <<E1, E2>>

\* the records of file from offset off on are whole and decodable up to a
\* last one whose positive length exceeds the bytes that remain
RECURSIVE TruncatedTail(_, _)
TruncatedTail(file, off) ==
    IF Len(file) - off < LenBytes THEN FALSE
    ELSE LET dataLen == ReadInt64LE(SubSeq(file, off + 1, off + LenBytes))
             at == off + LenBytes
         IN IF dataLen <= 0 THEN FALSE
            ELSE IF Len(file) - at < dataLen THEN TRUE
            ELSE /\ Unmarshal(SubSeq(file, at + 1, at + dataLen)).ok
                 /\ TruncatedTail(file, at + dataLen)

\* C9: on a file whose last record declares more payload bytes than remain,
\* ReadAll and readNext fail with errCorruptedWAL and return no entry.
C9_TruncatedRecordIsCorrupted ==
    \A t \in WalClients :
        (/\ walFd = "open"
         /\ TruncatedTail(walFile, 0)
         /\ \/ ret[t].op = "ReadAll"
            \/ ret[t].op = "readNext" /\ pc[t] = "rn_done") =>
            /\ ret[t].err = errCorruptedWAL
            /\ ret[t].entries = <<>>

\* C10: on a WAL whose handle is nil, Write, ReadAll, ReadBatch and readNext
\* return errNilFD with no result, no byte is written, the offset does not
\* move, no goroutine is started and the lock is free once the call is over.
C10_NilHandleNoEffect ==
    walFd = "nil" =>
        /\ walFile = wlog.init
        /\ walOff = 0
        /\ prod = NoProd
        /\ ~chanClosed
        /\ ~crashed
        /\ ((\A t \in Threads : pc[t] = "idle") => walMu = NoOne)
        /\ \A t \in WalClients :
              ret[t].op # "none" =>
                  /\ ret[t].err = errNilFD
                  /\ ret[t].entries = <<>>
                  /\ ret[t].count = 0
                  /\ ~ret[t].hasMore

\* ReadBatch has returned errNilFD as the last of three calls on a nil handle
C10_Witness ==
    /\ walFd = "nil"
    /\ \E t \in WalClients :
          /\ ret[t].op = "ReadBatch"
          /\ ret[t].err = errNilFD
          /\ opsLeft[t] = 0

\* C11: after fd.Close(), with the fd field still bound, Write and ReadAll
\* return errNilFD.
C11_ClosedFileIsNilFD ==
    \A t \in WalClients :
        (walFd = "closed" /\ ret[t].op \in {"Write", "ReadAll"}) =>
            ret[t].err = errNilFD

(***************************************************************************)
(* Locking of the MemTable (specification Spec)                            *)
(***************************************************************************)
\* a Set between mt.mu.Lock() and its deferred Unlock: the WAL write and the
\* SkipList apply
SetSection == {"set_wal_lock", "set_wal_write", "set_check", "set_apply"}

Mutators == {t \in Threads : pc[t] \in {"set_apply", "rec_apply"}}
Traversers == {t \in Threads : pc[t] = "get_read"}

\* C13: the SkipList has a single mutator at a time: no SkipList.Set, of
\* MemTable.Set or of the replay loop, overlaps with another SkipList.Set or
\* with a SkipList.Get.
C13_SingleMutator ==
    /\ Cardinality(Mutators) <= 1
    /\ Mutators # {} => Traversers = {}

(***************************************************************************)
(* Properties of the SkipList (specification SpecSL)                       *)
(***************************************************************************)
\* the calls of Set so far, and the last of them with key k
SetCalls == wlog.entries
SetCallsOf(k) == {i \in 1..Len(SetCalls) : SetCalls[i].Key = k}
LastSetOf(k) == SetCalls[CHOOSE i \in SetCallsOf(k) : \A j \in SetCallsOf(k) : j <= i]

\* C14: a Set with the key of the Set before it adds no node, and Get of that
\* key then returns the value and the tombstone flag of the second Set.
C14_SecondSetUpdates ==
    [][\A e \in SLEntries :
          (/\ SetCalls # <<>>
           /\ SetCalls[Len(SetCalls)].Key = e.Key
           /\ wlog'.entries = Append(SetCalls, e)) =>
              LET g == SkipListGet(skipList', e.Key) IN
              /\ skipList'.count = skipList.count
              /\ g.found
              /\ g.entry.Value = e.Value
              /\ g.entry.Tombstone = e.Tombstone]_vars

\* C15: Get(k) finds every key string that was passed to Set, with the value
\* of the last Set of k, and finds no key string that was never passed.
C15_GetFindsWhatWasSet ==
    \A k \in SLKeys :
        LET g == SkipListGet(skipList, k) IN
        IF SetCallsOf(k) = {} THEN ~g.found
        ELSE g.found /\ g.entry.Value = LastSetOf(k).Value

\* C16: All() returns count entries, every node's entry exactly once, with
\* keys strictly ascending under CompareKey and every key passed to Set among
\* them; on a new list it returns the empty sequence.
C16_AllIsSorted ==
    LET a == SkipListAll(skipList)
        all == a.entries
    IN /\ ~a.panics
       /\ Len(all) = skipList.count
       /\ Len(all) = Len(skipList.nodes)
       /\ \A n \in 1..Len(skipList.nodes) :
             Cardinality({i \in 1..Len(all) : all[i] = EntryOf(skipList.nodes[n])}) = 1
       /\ \A i \in 1..Len(all), j \in 1..Len(all) :
             i < j => CompareKey(all[i].Key, all[j].Key) < 0
       /\ \A c \in 1..Len(SetCalls) :
             \E i \in 1..Len(all) : CompareKey(all[i].Key, SetCalls[c].Key) = 0
       /\ (SetCalls = <<>> => all = <<>>)
       /\ (ret[SLClient].op = "SkipList.All" => ret[SLClient].entries = all)

\* All() has returned the three entries of a list built by three Sets
C16_Witness ==
    /\ ret[SLClient].op = "SkipList.All"
    /\ Len(ret[SLClient].entries) = 3
    /\ skipList.count = 3

\* the entries of All() between start and end, both inclusive
InRange(start, end) ==
    LET Within(e) == CompareKey(start, e.Key) <= 0 /\ CompareKey(e.Key, end) <= 0
    IN SelectSeq(SkipListAll(skipList).entries, Within)

\* C17: Scan(start, end) returns the stored entries from start to end, both
\* inclusive, in ascending order.
C17_ScanIsRange ==
    /\ \A start \in SLKeys, end \in SLKeys :
          SkipListScan(skipList, start, end) = InRange(start, end)
    /\ (ret[SLClient].op = "SkipList.Scan" =>
          ret[SLClient].entries = InRange(arg[SLClient][1], arg[SLClient][2]))

\* a Scan has returned two of three stored entries, the last of them at end
C17_Witness ==
    /\ ret[SLClient].op = "SkipList.Scan"
    /\ skipList.count = 3
    /\ Len(ret[SLClient].entries) = 2
    /\ ret[SLClient].entries[2].Key = arg[SLClient][2]

(***************************************************************************)
(* Properties of CompareKey (specification SpecCmp)                        *)
(***************************************************************************)
\* a key split at its last '@' into prefix and timestamp; the whole key with
\* timestamp 0 when there is no '@' or the suffix is no unsigned number
SplitAtLast(key) ==
    LET idx == LastIndexAt(key)
        r == ParseUint(SubSeq(key, idx + 2, Len(key)))
    IN IF idx = -1 \/ ~r.ok THEN [prefix |-> key, ts |-> 0]
       ELSE [prefix |-> SubSeq(key, 1, idx), ts |-> r.val]

Sign(n) == IF n < 0 THEN -1 ELSE IF n > 0 THEN 1 ELSE 0

Compared == ret[SLClient].op = "CompareKey"

\* C18: with equal prefixes the larger timestamp sorts first; with different
\* prefixes the result is the order of the prefixes, whatever the timestamps.
C18_PrefixThenTimestamp ==
    Compared =>
        LET a == arg[SLClient][1]
            b == arg[SLClient][2]
            sa == SplitAtLast(a)
            sb == SplitAtLast(b)
        IN /\ (sa.prefix = sb.prefix /\ sa.ts > sb.ts) =>
                  ret[SLClient].count < 0 /\ CompareKey(b, a) > 0
           /\ sa.prefix # sb.prefix =>
                  Sign(ret[SLClient].count) = StringsCompare(sa.prefix, sb.prefix)

\* C19: CompareKey is reflexive, antisymmetric (0 only for the same string,
\* opposite signs when the arguments are swapped) and transitive.
C19_TotalOrder ==
    Compared =>
        LET a == arg[SLClient][1]
            b == arg[SLClient][2]
            c == arg[SLClient][3]
        IN /\ CompareKey(a, a) = 0
           /\ (ret[SLClient].count = 0 => a = b)
           /\ Sign(CompareKey(b, a)) = -Sign(ret[SLClient].count)
           /\ (CompareKey(a, b) <= 0 /\ CompareKey(b, c) <= 0) =>
                  CompareKey(a, c) <= 0

(***************************************************************************)
(* Locking of the WAL (specification SpecShared)                           *)
(***************************************************************************)
\* who is inside the critical section of the WAL: a Write or ReadAll between
\* Lock and Unlock, the goroutine of ReadBatch from its seek to its close
ProducerInside == prod.pc \in {"seek", "read", "send", "close"}
InsideWal ==
    {t \in Threads : pc[t] \in {"w_write", "ra_read"}}
    \cup (IF ProducerInside THEN {Producer} ELSE {})

\* C20: at most one of Write, ReadAll and the ReadBatch goroutine is inside
\* the critical section; while the goroutine is inside, nobody else appends
\* to the file or moves its offset, and when it is about to close the channel
\* the client holds the records the file had when the lock was taken.
C20_WalOperationsExclude ==
    /\ [](/\ Cardinality(InsideWal) <= 1
          /\ \A t \in InsideWal : walMu = t
          /\ prod.pc = "close" =>
                batch[WalReader] = ReadAll(walFile, 0, walFd).entries)
    /\ [][ProducerInside =>
            /\ walFile' = walFile
            /\ walOff' # walOff => prod' # prod]_vars

\* a Write waits for the lock while the stream is between two batches
C20_Witness ==
    /\ pc[WalWriter] = "w_lock"
    /\ prod.pc = "read"
    /\ batch[WalReader] # <<>>
    /\ walMu = Producer

(***************************************************************************)
(* The WAL file as a whole (specification SpecWAL)                         *)
(***************************************************************************)
IsPrefix(x, y) == Len(x) <= Len(y) /\ SubSeq(y, 1, Len(x)) = x

\* an entry of the batch cannot be serialized
Unserializable(entries) ==
    \E i \in 1..Len(entries) :
        \E j \in 1..Len(entries[i].Key) : entries[i].Key[j] >= Utf8Limit

\* C21: the WAL file is append-only: the file before a step is a prefix of
\* the file after it, so the file at the start is a prefix of every later
\* one; and a Write on an open handle whose batch holds an entry that cannot
\* be serialized fails and appends nothing.
C21_AppendOnly ==
    /\ [][IsPrefix(walFile, walFile')]_vars
    /\ [](IsPrefix(wlog.init, walFile))
    /\ [][\A t \in Threads :
            (/\ pc[t] = "w_write" /\ Steps(t)
             /\ walFd = "open"
             /\ Unserializable(arg[t])) =>
                /\ wres'[t].err # ErrNil
                /\ walFile' = walFile]_vars

\* a Write of a batch whose second entry cannot be serialized has failed on
\* a file that an earlier Write had appended to
C21_Witness ==
    \E t \in WalClients :
        /\ ret[t].op = "Write" /\ ret[t].err = ErrMarshal /\ ret[t].count = 1
        /\ wlog.init # <<>>
        /\ Len(walFile) > Len(wlog.init)

(***************************************************************************)
(* The replay next to Set calls (specification Spec)                       *)
(***************************************************************************)
\* the one replay has returned, no call is in progress, and no Write failed
Quiescent ==
    /\ bodyRuns = 1
    /\ once.done = 1
    /\ \A t \in Threads : pc[t] = "idle"
    /\ ~crashed
    /\ walFd = "open"
    /\ ~wlog.failed

\* C22: in every quiescent state after Set calls interleaved with one
\* Recovery, the SkipList holds, for every key with a record in the WAL, the
\* value and the tombstone of the last record of that key in the file.
C22_QuiescentMatchesLog ==
    Quiescent =>
        LET log == ReadAll(walFile, 0, walFd).entries IN
        \A k \in KeysOf(log) :
            LET g == SkipListGet(skipList, k) IN
            /\ g.found
            /\ g.entry.Value = LastOf(log, k).Value
            /\ g.entry.Tombstone = LastOf(log, k).Tombstone

\* a call of Recovery returns in this step
RecoveryReturning == recReturns' = recReturns + 1

\* C23: no call of Recovery returns while the replay is running: when a call
\* returns, having run the replay or not, the guard is Done, no thread is in
\* the body, and no entry is applied by the replay from then on.
C23_ReturnsOnlyWhenDone ==
    /\ [][RecoveryReturning =>
            /\ Guard' = "Done"
            /\ \A t \in Threads : pc'[t] \notin BodyPcs]_vars
    /\ [](recReturns >= 1 =>
            /\ Guard = "Done"
            /\ \A t \in Threads : pc[t] \notin BodyPcs)
    /\ [][recReturns >= 1 =>
            \A t \in Threads : ~(pc[t] = "rec_apply" /\ Steps(t))]_vars

\* both threads called Recovery first, one of them replayed the three records
\* of the file, and both have returned
C23_Witness ==
    /\ recReturns = 2
    /\ bodyRuns = 1
    /\ \A t \in Threads : ret[t].op = "Recovery"
    /\ opsLeft = [t \in Threads |-> IF t = "t1" THEN MaxOps - 1 ELSE MaxOps - 2]
    /\ walFile = File3
    /\ skipList.count = 2

(***************************************************************************)
(* Progress of the stream (specification SpecLive)                         *)
(***************************************************************************)
\* the file was well-formed at the start and every Write since has succeeded:
\* it reads to its end without an error
WellFormed == walFd = "open" /\ wlog.init \in WellFormedFiles /\ ~wlog.failed

InitRecords ==
    CHOOSE recs \in {<<>>, <<E1>>, <<E1, E2>>, <<E1, E2, E3>>} :
        FileOf(recs) = wlog.init
Records == InitRecords \o wlog.entries
KnownRecords ==
    /\ walFd = "open"
    /\ wlog.init \in WellFormedFiles
    /\ ~wlog.failed
    /\ \A i \in 1..Len(wlog.entries) : Marshal(wlog.entries[i]) # <<>>

\* the offset after the first k records
OffsetAfter(k) == Len(FileOf(SubSeq(Records, 1, k)))

\* C25: a call of readNext(maxCount) at the boundary after k records of a
\* well-formed file, with r records remaining, returns the next
\* min(r, maxCount) records in file order without an error and moves the
\* offset past exactly those; hasMore is true exactly when r >= maxCount
\* (the batch was filled without meeting the end of the file), so that after
\* r = maxCount the next call returns no record and hasMore = false.
C25_ReadNextBatch ==
    [][\A t \in WalClients :
          (pc[t] = "rn_loop" /\ KnownRecords /\ vars' # vars) =>
              /\ walFile = FileOf(Records)
              /\ \E k \in 0..Len(Records) :
                    /\ walOff = OffsetAfter(k)
                    /\ LET r == Len(Records) - k
                           n == Min(r, arg[t])
                       IN /\ ret'[t].op = "readNext"
                          /\ ret'[t].err = ErrNil
                          /\ ret'[t].entries = SubSeq(Records, k + 1, k + n)
                          /\ ret'[t].hasMore = (r >= arg[t])
                          /\ walOff' = OffsetAfter(k + n)]_vars

\* two records were read with maxCount = 2 and hasMore = true, and the call
\* after that returned no record, no error and hasMore = false
C25_Witness ==
    \E t \in WalClients :
        /\ pc[t] = "rn_done" /\ arg[t] = 2
        /\ walFile = FileOf(<<E1, E2>>)
        /\ batch[t] = <<E1, E2>>
        /\ ret[t] = Ret("readNext", ErrNil, <<>>, 0, FALSE, FALSE)

(***************************************************************************)
(* ReadAll on a file with a bad length (specification SpecWAL)             *)
(***************************************************************************)
\* the records of file from offset off on are whole and decodable up to one
\* whose length prefix is zero or negative
RECURSIVE NonPositiveLength(_, _)
NonPositiveLength(file, off) ==
    IF Len(file) - off < LenBytes THEN FALSE
    ELSE LET dataLen == ReadInt64LE(SubSeq(file, off + 1, off + LenBytes))
             at == off + LenBytes
         IN IF dataLen <= 0 THEN TRUE
            ELSE IF Len(file) - at < dataLen THEN FALSE
            ELSE /\ Unmarshal(SubSeq(file, at + 1, at + dataLen)).ok
                 /\ NonPositiveLength(file, at + dataLen)

WholeRecords(entries, n) ==
    Cardinality({j \in 1..Len(entries) : Len(FileOf(SubSeq(entries, 1, j))) <= n})

\* C27: the count a Write returns, with an error or without, is the number
\* of records of its batch that the call appended to the file; without an
\* error it is the number of entries passed.
C27_CountIsAppended ==
    [][\A t \in WalClients :
          (pc[t] = "w_write" /\ Steps(t)) =>
              /\ wres'[t].count =
                     WholeRecords(arg[t], Len(walFile') - Len(walFile))
              /\ wres'[t].err = ErrNil => wres'[t].count = Len(arg[t])]_vars

(***************************************************************************)
(* The structure of the SkipList (specification SpecSL)                    *)
(***************************************************************************)
Height(s, n) == Len(s.nodes[n].next)

\* the nodes along the level-i links from node n on, at most fuel of them
RECURSIVE ChainFrom(_, _, _, _)
ChainFrom(s, n, i, fuel) ==
    IF n = NilNode \/ fuel = 0 THEN <<>>
    ELSE <<n>> \o ChainFrom(s, NextOf(s, n, i), i, fuel - 1)

\* the nodes reachable from head at level i
Chain(s, i) == ChainFrom(s, NextOf(s, HeadNode, i), i, Len(s.nodes) + 1)

MaxHeight(s) ==
    IF s.nodes = <<>> THEN 1
    ELSE CHOOSE h \in 1..s.maxLevel :
            /\ \E n \in 1..Len(s.nodes) : Height(s, n) = h
            /\ \A n \in 1..Len(s.nodes) : Height(s, n) <= h

NodeSize(node) ==
    Len(node.Key) + Len(node.Value) + SizeofBool + SizeofInt64
        + Len(node.next) * SizeofPtr

RECURSIVE SizeOfNodes(_, _)
SizeOfNodes(s, n) == IF n = 0 THEN 0 ELSE NodeSize(s.nodes[n]) + SizeOfNodes(s, n - 1)

\* C29: after any sequence of Set calls, inserts and updates with longer and
\* shorter values, count is the number of nodes linked at level 0, and
\* GetSize() is the sum over these nodes of len(stored key) + len(current
\* value) + 1 + 8 + 8 * height; the size of a new list is 0 and it is never
\* negative.
C29_CountAndSize ==
    /\ skipList.count = Len(Chain(skipList, 0))
    /\ skipList.count = Len(skipList.nodes)
    /\ skipList.size = SizeOfNodes(skipList, Len(skipList.nodes))
    /\ skipList.size >= 0
    /\ (SetCalls = <<>> => skipList.size = 0 /\ skipList.count = 0)

\* a value of two bytes was replaced by one of one byte, next to another node
C29_Witness ==
    /\ Len(SetCalls) = 3
    /\ SetCalls[1] = Entry(K1, <<2, 2>>, TRUE, 2)
    /\ SetCalls[3] = Entry(K1, <<1>>, FALSE, 1)
    /\ skipList.count = 2
    /\ skipList.nodes[1].Value = <<1>>

\* C30: a Set whose key compares equal to the key of a stored node changes
\* the value and the tombstone of that node and the size, by the difference
\* of the value lengths; the node's stored key, version, height and links,
\* every other node, the head, count and level stay as they were.
C30_UpdateFrame ==
    [][\A e \in SLEntries, n \in 1..Len(skipList.nodes) :
          (/\ wlog'.entries = Append(SetCalls, e)
           /\ CompareKey(skipList.nodes[n].Key, e.Key) = 0) =>
              /\ Len(skipList'.nodes) = Len(skipList.nodes)
              /\ \A m \in 1..Len(skipList.nodes) :
                    m # n => skipList'.nodes[m] = skipList.nodes[m]
              /\ skipList'.nodes[n].Value = e.Value
              /\ skipList'.nodes[n].Tombstone = e.Tombstone
              /\ skipList'.nodes[n].Key = skipList.nodes[n].Key
              /\ skipList'.nodes[n].Version = skipList.nodes[n].Version
              /\ skipList'.nodes[n].next = skipList.nodes[n].next
              /\ skipList'.size = skipList.size + Len(e.Value)
                                     - Len(skipList.nodes[n].Value)
              /\ skipList'.count = skipList.count
              /\ skipList'.level = skipList.level
              /\ skipList'.head = skipList.head
              /\ skipList'.maxLevel = skipList.maxLevel]_vars

\* Set("a@01") with a longer value and another version has updated the node
\* stored as "a@1", next to another node
C30_Witness ==
    /\ Len(SetCalls) = 3
    /\ SetCalls[3] = Entry(KA01, <<2, 2>>, TRUE, 2)
    /\ skipList.count = 2
    /\ \E n \in 1..Len(skipList.nodes) :
          /\ skipList.nodes[n].Key = KA1
          /\ skipList.nodes[n].Value = <<2, 2>>
          /\ skipList.nodes[n].Version = 1


\* C31: a MemTable made by NewMebTable holds a bound WAL as long as it lives,
\* and no call of Set, Get or Recovery on it ends in a panic on a missing WAL:
\* each call goes on to its return.
C31_BoundWal ==
    /\ mtWal = "bound"
    /\ \A t \in Threads : pc[t] # "panicked"
====
